---- MODULE Spec2Model ----
(***************************************************************************)
(* Sales Forecast Dashboard (Streamlit): the scenario-adjusted forecast    *)
(* and the KPIs of src/dashboard/mainpage.py, with the loading of the      *)
(* state artifact shared by the three pages.                               *)
(*                                                                         *)
(* Numbers of the forecast tables are IEEE-754 binary64 values.  A value   *)
(* is held exactly, as sign and magnitude, in units of 2^-FracBits; the    *)
(* magnitude is a natural number written in limbs of LimbBits bits, least  *)
(* significant first, without leading zero limbs (TLC's integers have 32   *)
(* bits).  Every arithmetic operation computes the exact result and rounds *)
(* it to Prec significant bits, ties to even, as the hardware does.  The   *)
(* model's values are 0 or of magnitude in [2^-7, 2^15), where binary64    *)
(* neither overflows nor underflows and every value is a multiple of       *)
(* 2^-FracBits.                                                            *)
(***************************************************************************)
EXTENDS Integers, Sequences, FiniteSets, TLC

\* ------------------------------------------------------------ naturals
LimbBits == 15
Base == 2^LimbBits
\* limbs of the fraction: a value v is held as |v| * 2^(LimbBits * FracLimbs)
FracLimbs == 4
FracBits == LimbBits * FracLimbs
\* significant bits of a binary64 value
Prec == 53

\* the one element of a singleton: The({F(v) : v \in {e}}) is F(e) with e
\* evaluated once
The(S) == CHOOSE r \in S : TRUE

Limb(a, i) == IF i <= Len(a) THEN a[i] ELSE 0

Max(S) == CHOOSE m \in S : \A k \in S : k <= m

\* a without its leading zero limbs
Trim(a) == SubSeq(a, 1, Max({0} \cup {i \in 1..Len(a) : a[i] # 0}))

RECURSIVE BigOfInt(_)
BigOfInt(n) == IF n = 0 THEN <<>> ELSE <<n % Base>> \o BigOfInt(n \div Base)

RECURSIVE AddFrom(_, _, _, _)
AddFrom(a, b, i, c) ==
    IF i > Len(a) /\ i > Len(b)
    THEN IF c = 0 THEN <<>> ELSE <<c>>
    ELSE The({<<s % Base>> \o AddFrom(a, b, i + 1, s \div Base) :
                s \in {Limb(a, i) + Limb(b, i) + c}})

BAdd(a0, b0) == The({AddFrom(a, b, 1, 0) : a \in {a0}, b \in {b0}})

RECURSIVE SubFrom(_, _, _, _)
SubFrom(a, b, i, c) ==
    IF i > Len(a) THEN <<>>
    ELSE The({IF s < 0 THEN <<s + Base>> \o SubFrom(a, b, i + 1, 1)
              ELSE <<s>> \o SubFrom(a, b, i + 1, 0) :
                s \in {a[i] - Limb(b, i) - c}})

\* a - b, for a >= b
BSub(a0, b0) == The({Trim(d) : d \in {The({SubFrom(a, b, 1, 0) : a \in {a0}, b \in {b0}})}})

RECURSIVE LessFrom(_, _, _)
LessFrom(a, b, i) ==
    IF i = 0 THEN FALSE
    ELSE IF a[i] # b[i] THEN a[i] < b[i] ELSE LessFrom(a, b, i - 1)

BLess(a0, b0) ==
    \E a \in {a0}, b \in {b0} :
        IF Len(a) # Len(b) THEN Len(a) < Len(b) ELSE LessFrom(a, b, Len(a))

BLeq(a, b) == ~BLess(b, a)

RECURSIVE MulLimbFrom(_, _, _, _)
MulLimbFrom(a, d, i, c) ==
    IF i > Len(a) THEN IF c = 0 THEN <<>> ELSE <<c>>
    ELSE The({<<s % Base>> \o MulLimbFrom(a, d, i + 1, s \div Base) :
                s \in {a[i] * d + c}})

\* a * d, for a limb d
MulLimb(a0, d0) ==
    The({IF d = 0 THEN <<>> ELSE MulLimbFrom(a, d, 1, 0) : a \in {a0}, d \in {d0}})

ShiftLimbs(a0, k) ==
    The({IF a = <<>> THEN a ELSE [i \in 1..k |-> 0] \o a : a \in {a0}})

RECURSIVE MulFrom(_, _, _)
\* a * (the limbs j.. of b)
MulFrom(a, b, j) ==
    IF j > Len(b) THEN <<>>
    ELSE BAdd(MulLimb(a, b[j]), ShiftLimbs(MulFrom(a, b, j + 1), 1))

BMul(a0, b0) == The({MulFrom(a, b, 1) : a \in {a0}, b \in {b0}})

RECURSIVE DivLimbFrom(_, _, _, _)
\* the quotient limbs i..1 of a by the limb d, most significant first, then
\* the remainder as the last element
DivLimbFrom(a, d, i, r) ==
    IF i = 0 THEN <<r>>
    ELSE The({<<s \div d>> \o DivLimbFrom(a, d, i - 1, s % d) :
                s \in {r * Base + a[i]}})

Reverse(a) == [i \in 1..Len(a) |-> a[Len(a) + 1 - i]]

\* a \div d and a % d, for 0 < d < Base
BDivLimb(a0, d) ==
    The({[quot |-> Trim(Reverse(SubSeq(qr, 1, Len(qr) - 1))), rem |-> qr[Len(qr)]] :
           qr \in {The({DivLimbFrom(a, d, Len(a), 0) : a \in {a0}})}})

RECURSIVE IntBits(_)
IntBits(n) == IF n = 0 THEN 0 ELSE 1 + IntBits(n \div 2)

BitLen(a) == IF a = <<>> THEN 0 ELSE LimbBits * (Len(a) - 1) + IntBits(a[Len(a)])

ShiftLeft(a, s) == ShiftLimbs(MulLimb(a, 2^(s % LimbBits)), s \div LimbBits)

ShiftRight(a, s) ==
    LET bs == s % LimbBits
    IN  The({Trim([i \in 1..Len(b) |->
                    (b[i] \div 2^bs) + (Limb(b, i + 1) % 2^bs) * 2^(LimbBits - bs)]) :
               b \in {SubSeq(a, s \div LimbBits + 1, Len(a))}})

IsOdd(a) == a # <<>> /\ a[1] % 2 = 1

\* a, of more than Prec bits, rounded to its Prec leading bits: to nearest,
\* ties to even
RoundTo(a, s) ==
    The({The({ShiftLeft(IF BLess(half, low) \/ (low = half /\ IsOdd(q))
                        THEN BAdd(q, <<1>>) ELSE q, s) :
                low \in {BSub(a, ShiftLeft(q, s))},
                half \in {ShiftLeft(<<1>>, s - 1)}}) :
           q \in {ShiftRight(a, s)}})

\* a rounded to Prec significant bits
RoundPrec(a0) ==
    The({IF BitLen(a) <= Prec THEN a ELSE RoundTo(a, BitLen(a) - Prec) :
           a \in {a0}})

\* ------------------------------------------------------------ binary64
Float(neg, mag0) ==
    The({[neg |-> neg /\ mag # <<>>, mag |-> mag] : mag \in {mag0}})

Abs(k) == IF k < 0 THEN -k ELSE k

\* the binary64 value of the integer k (exact for the model's integers)
FInt(k) == Float(k < 0, ShiftLimbs(BigOfInt(Abs(k)), FracLimbs))

\* the binary64 value nearest to n / d, as the parser reads a decimal
\* literal: d is a power of ten below Base
FLit(n, d) ==
    The({Float(n < 0, SubSeq(r, 2 * FracLimbs + 1, Len(r))) :
           r \in {The({RoundPrec(
                        \* a remainder makes the quotient odd, below the
                        \* position rounded at
                        IF qr.rem = 0 \/ IsOdd(qr.quot) THEN qr.quot
                        ELSE BAdd(qr.quot, <<1>>)) :
                    qr \in {BDivLimb(ShiftLimbs(BigOfInt(Abs(n)), 3 * FracLimbs), d)}})}})

\* the exact product, rounded
Product(x0, y0) ==
    The({Float(x.neg # y.neg, SubSeq(r, FracLimbs + 1, Len(r))) :
           r \in {The({RoundPrec(BMul(x.mag, y.mag)) : x \in {x0}, y \in {y0}})},
           x \in {x0}, y \in {y0}})

\* x + y in binary64
FAdd(x0, y0) ==
    The({IF x.neg = y.neg THEN Float(x.neg, RoundPrec(BAdd(x.mag, y.mag)))
         ELSE IF BLess(x.mag, y.mag)
         THEN Float(y.neg, RoundPrec(BSub(y.mag, x.mag)))
         ELSE Float(x.neg, RoundPrec(BSub(x.mag, y.mag))) :
           x \in {x0}, y \in {y0}})

\* x <= y
FLeq(x0, y0) ==
    \E x \in {x0}, y \in {y0} :
        IF x.neg /\ ~y.neg THEN TRUE
        ELSE IF ~x.neg /\ y.neg THEN FALSE
        ELSE IF x.neg THEN BLeq(y.mag, x.mag)
        ELSE BLeq(x.mag, y.mag)

\* ------------------------------------------------------ the artifact
\* rows of the 6-month window
WindowSize == 6

\* longest aggregate forecast, and rows of the longest per-category table
MaxLen == 12
MaxCatRows == 13

AllCategories == "All Categories"

\* the category labels, in the order sorted() gives them
LabelOrder == <<"Furniture", "Office Supplies", "Technology">>
Labels == {LabelOrder[i] : i \in 1..Len(LabelOrder)}

\* (yhat_lower, yhat, yhat_upper) in tenths, repeated along a series
Patterns ==
    << << <<900, 1000, 1100>> >>,
       << <<-50, 30, 70>>, <<10, 10, 10>>, <<2500, 2500, 3001>>,
          <<-25, 0, 7>>, <<-80, -30, -30>>, <<1234, 1239, 1241>> >> >>

PatternAt(p, i) == Patterns[p][((i - 1) % Len(Patterns[p])) + 1]

Point(ds, v) ==
    [ds |-> ds, yhat |-> FLit(v[2], 10),
     yhat_lower |-> FLit(v[1], 10), yhat_upper |-> FLit(v[3], 10)]

\* lines 86-91, in the dictionary's order
ScenarioNames ==
    <<"Conservative (-10%)", "Baseline (0%)", "Optimistic (+10%)",
      "Aggressive (+20%)">>

scenario_map ==
    [n \in {ScenarioNames[i] : i \in 1..Len(ScenarioNames)} |->
        CASE n = "Conservative (-10%)" -> FLit(-10, 100)
          [] n = "Baseline (0%)" -> FLit(0, 100)
          [] n = "Optimistic (+10%)" -> FLit(10, 100)
          [] n = "Aggressive (+20%)" -> FLit(20, 100)]

\* the values the forecast tables hold, and 1 + rate of every scenario
TableValues ==
    UNION {{FLit(Patterns[p][i][j], 10) : i \in 1..Len(Patterns[p]), j \in 1..3} :
             p \in 1..Len(Patterns)}

Factors == {FAdd(FInt(1), scenario_map[n]) : n \in DOMAIN scenario_map}

\* their products, computed once
Products ==
    [xy \in TableValues \X Factors |-> Product(xy[1], xy[2])] @@ <<>>

\* x * y in binary64
FMul(x, y) ==
    IF <<x, y>> \in DOMAIN Products THEN Products[<<x, y>>] ELSE Product(x, y)

\* the aggregate forecast: n monthly points, ordered by timestamp
Series(p, n) == [i \in 1..n |-> Point(i, PatternAt(p, i))]

LabelCycles ==
    << <<"Technology", "Furniture">>,
       <<"Office Supplies", "Furniture", "Office Supplies", "Technology">>,
       <<"Furniture">> >>

LabelAt(k, i) == LabelCycles[k][((i - 1) % Len(LabelCycles[k])) + 1]

\* the per-category forecast: m rows, each category's rows ordered by
\* timestamp, the categories interleaved
CatTable(k, m) ==
    [i \in 1..m |->
        [Category |-> LabelAt(k, i),
         ds |-> Cardinality({j \in 1..i : LabelAt(k, j) = LabelAt(k, i)}),
         yhat |-> FLit(PatternAt(2, i)[2], 10),
         yhat_lower |-> FLit(PatternAt(2, i)[1], 10),
         yhat_upper |-> FLit(PatternAt(2, i)[3], 10)]]

CatTables ==
    {CatTable(1, MaxCatRows), CatTable(2, MaxCatRows \div 2), CatTable(1, 0)}

ErrRow(m, mae) == [Model |-> m, MAE |-> FLit(mae, 100)]

\* error tables, MAE in hundredths, in the table's row order
ErrTables ==
    { <<ErrRow("Naive", 500), ErrRow("Prophet", 300), ErrRow("Moving Average", 300)>>,
      <<ErrRow("A", 500), ErrRow("B", 300), ErrRow("C", 300)>>,
      <<ErrRow("Prophet", 41237), ErrRow("Seasonal Naive", 39805),
        ErrRow("Naive", 39805), ErrRow("Moving Average", 51200)>> }

MonthlySales ==
    << [OrderDate |-> 1, Sales |-> FLit(9505, 10)],
       [OrderDate |-> 2, Sales |-> FLit(11020, 10)] >>

\* the keys of the pickled dictionary the pages read: those of the main
\* page, then those the other pages read inside and after their try block
MainKeys == {"monthly_sales", "forecast", "category_forecast_df", "errors"}
ComparisonKeys == {"baseline_forecasts", "errors", "forecast", "monthly_sales"}
DatasetKeys == {"dataframe", "categorical_info"}
AllKeys ==
    MainKeys \cup ComparisonKeys \cup DatasetKeys
        \cup {"categorical_cols", "test"}

Artifact(keys, fc, cat, errs) ==
    [status |-> "ok", keys |-> keys, forecast |-> fc,
     category_forecast_df |-> cat, errors |-> errs,
     monthly_sales |-> MonthlySales]

NoFile(status) ==
    [status |-> status, keys |-> {}, forecast |-> <<>>,
     category_forecast_df |-> <<>>, errors |-> <<>>, monthly_sales |-> <<>>]

FullArtifacts ==
    {Artifact(AllKeys, Series(p, n), cat, errs) :
        p \in 1..Len(Patterns), n \in 0..MaxLen, cat \in CatTables,
        errs \in ErrTables}

BaseArtifact ==
    Artifact(AllKeys, Series(2, MaxLen), CatTable(1, MaxCatRows),
             CHOOSE e \in ErrTables : e[1].Model = "Naive")

\* artifacts the notebook wrote without one of the tables
PartialArtifacts ==
    {[BaseArtifact EXCEPT !.keys = AllKeys \ {k}] : k \in AllKeys}

Stores ==
    {NoFile("absent"), NoFile("corrupt")} \cup FullArtifacts
        \cup PartialArtifacts

\* -------------------------------------------------------- the state
VARIABLES
    store,    \* store/state_dump.pkl as the notebook left it
    cache,    \* what st.cache_data holds for load_state, for all sessions
    sess      \* per browser session: page, widget state, what the run drew

vars == <<store, cache, sess>>

Pages == {"mainpage", "dataset_info", "comparison"}

\* a widget key that is not in st.session_state
Unset == ""

NoWidgets == [selected_category |-> Unset, selected_scenario |-> Unset]

Zero == FInt(0)

\* what a run draws: the elements in `elements`, and the values they show
BlankView ==
    [elements |-> {}, error |-> "", categories |-> <<>>, scenarios |-> <<>>,
     forecast |-> <<>>,
     state_holder |-> [forecast |-> <<>>, category_forecast_df |-> <<>>,
                       errors |-> <<>>],
     growth_adjustment |-> Zero, forecast_6m_total |-> Zero,
     best_model |-> "", best_mae |-> Zero, actuals |-> <<>>, plot |-> <<>>,
     table |-> <<>>,
     insight |-> {}, forecast_6m |-> Zero]

\* ------------------------------------------------------- load_state
\* @st.cache_data: the cached value when there is one, else the file is
\* opened and unpickled, and the value is cached; an exception caches nothing
load_state(c, st) ==
    IF c.present THEN [raise |-> "", value |-> c.value, cache |-> c]
    ELSE IF st.status = "absent"
    THEN [raise |-> "FileNotFoundError", value |-> st, cache |-> c]
    ELSE IF st.status = "corrupt"
    THEN [raise |-> "UnpicklingError", value |-> st, cache |-> c]
    ELSE [raise |-> "", value |-> st, cache |-> [present |-> TRUE, value |-> st]]

\* the try block of a page: load_state, then the state_holder[...] reads
\* of `keys`; the name of the exception raised, or ""
TryLoad(ld, keys) ==
    IF ld.raise # "" THEN ld.raise
    ELSE IF ~(keys \subseteq ld.value.keys) THEN "KeyError"
    ELSE ""

\* the except branches: st.error(...) and st.stop()
Stopped(raise) ==
    [session_state |-> NoWidgets,
     view |-> [BlankView EXCEPT
                 !.elements = {"error"},
                 !.error = IF raise = "FileNotFoundError"
                           THEN "Required files are not found"
                           ELSE "Errors encountered while starting project"]]

\* ---------------------------------------------------- the main page
\* Series.unique() then sorted(): the labels that occur, in sorted order
SortedUnique(df) ==
    SelectSeq(LabelOrder, LAMBDA l : \E i \in 1..Len(df) : df[i].Category = l)

\* (Categories_unsorted: sorted() left out, the labels in the order
\* unique() gives them, that of their first rows)
Categories_unsorted(category_forecast) ==
    LET present == {category_forecast[i].Category :
                      i \in 1..Len(category_forecast)}
        first(l) == CHOOSE i \in 1..Len(category_forecast) :
                      /\ category_forecast[i].Category = l
                      /\ \A j \in 1..(i - 1) : category_forecast[j].Category # l
    IN  <<AllCategories>> \o
        [k \in 1..Cardinality(present) |->
            CHOOSE l \in present :
                Cardinality({m \in present : first(m) <= first(l)}) = k]
Categories(category_forecast) ==
    <<AllCategories>> \o SortedUnique(category_forecast)

\* st.selectbox(options, index, key): the key's value in st.session_state,
\* which is options[index] until the user chooses
\* (Selectbox_first: index left out, the first option preselected)
Selectbox_first(options, index, current) ==
    IF current = Unset THEN options[1] ELSE current
Selectbox(options, index, current) ==
    IF current = Unset THEN options[index + 1] ELSE current

\* DataFrame.copy(): a new object holding the rows of the object `src`
\* (copy_alias: a second name for the object `src`, no new object)
copy_alias(heap, src) == [ref |-> src, heap |-> heap]
copy(heap, src) ==
    [ref |-> "forecast", heap |-> [heap EXCEPT !.forecast = heap[src]]]

\* category_forecast[category_forecast["Category"] == selected]: a new
\* object holding the rows the mask keeps, in their order
\* (FilterCategory_other: the mask negated)
FilterCategory_other(heap, selected) ==
    [heap EXCEPT !.filtered =
        SelectSeq(heap.category_forecast, LAMBDA r : r.Category # selected)]
FilterCategory(heap, selected) ==
    [heap EXCEPT !.filtered =
        SelectSeq(heap.category_forecast, LAMBDA r : r.Category = selected)]

\* lines 73-83: the object `forecast` names, and the objects of the run
ForecastSource(heap, selected_category) ==
    IF selected_category = AllCategories
    THEN copy(heap, "forecast_all")
    ELSE copy(FilterCategory(heap, selected_category), "filtered")

\* the adjusted columns of a row (Adjusted_bounds_unscaled: the estimate
\* scaled, the bounds copied)
Adjusted_bounds_unscaled(row, factor) ==
    row @@ [yhat_adj |-> FMul(row.yhat, factor),
            yhat_lower_adj |-> row.yhat_lower,
            yhat_upper_adj |-> row.yhat_upper]
Adjusted(row, factor) ==
    row @@ [yhat_adj |-> FMul(row.yhat, factor),
            yhat_lower_adj |-> FMul(row.yhat_lower, factor),
            yhat_upper_adj |-> FMul(row.yhat_upper, factor)]

\* lines 100-103: three columns are assigned to the object `ref` names
\* (ApplyGrowth_rate_only: the columns times the rate, not 1 + rate)
ApplyGrowth_rate_only(heap, ref, growth_adjustment) ==
    [heap EXCEPT ![ref] =
        [i \in 1..Len(heap[ref]) |-> Adjusted(heap[ref][i], growth_adjustment)]]
ApplyGrowth(heap, ref, growth_adjustment) ==
    LET factor == FAdd(FInt(1), growth_adjustment)
    IN  [heap EXCEPT ![ref] =
            [i \in 1..Len(heap[ref]) |-> Adjusted(heap[ref][i], factor)]]

\* DataFrame.tail(n): the last n rows, all rows when there are fewer
\* (tail_head: the first n rows)
tail_head(df, n) == SubSeq(df, 1, IF Len(df) > n THEN n ELSE Len(df))
tail(df, n) == SubSeq(df, IF Len(df) > n THEN Len(df) - n + 1 ELSE 1, Len(df))

RECURSIVE SumFrom(_, _, _)
SumFrom(vals, i, acc) ==
    IF i > Len(vals) THEN acc ELSE SumFrom(vals, i + 1, FAdd(acc, vals[i]))

\* Series.sum(): the values added one after the other, from 0.0
\* (sum_skip_first: the first value left out)
sum_skip_first(vals) == SumFrom(vals, 2, Zero)
sum(vals) == SumFrom(vals, 1, Zero)

Column(df, col) == [i \in 1..Len(df) |-> df[i][col]]

RECURSIVE IdxMinFrom(_, _, _)
IdxMinFrom(vals, i, best) ==
    IF i > Len(vals) THEN best
    ELSE The({IdxMinFrom(vals, i + 1, b) :
                b \in {IF FLeq(vals[best], vals[i]) THEN best ELSE i}})

\* Series.idxmin(): the index label of the first row holding the minimum
\* (idxmin_last: the last such row)
idxmin_last(errors) ==
    errors[CHOOSE i \in 1..Len(errors) :
             \A j \in 1..Len(errors) :
                /\ FLeq(errors[i].MAE, errors[j].MAE)
                /\ j > i => errors[j].MAE # errors[i].MAE].Model
idxmin(errors) == errors[IdxMinFrom(Column(errors, "MAE"), 2, 1)].Model

\* errors.loc[model, "MAE"]
loc(errors, model) ==
    (CHOOSE r \in {errors[i] : i \in 1..Len(errors)} : r.Model = model).MAE

\* lines 198-207
\* the messages drawn under "Business Insight"
\* (Insight_separate_ifs: every elif written as an if)
Insight_separate_ifs(growth_adjustment) ==
    (IF FLeq(FLit(15, 100), growth_adjustment) THEN {"aggressive"} ELSE {})
    \cup (IF growth_adjustment # Zero /\ FLeq(Zero, growth_adjustment)
          THEN {"moderate"} ELSE {})
    \cup (IF growth_adjustment # Zero /\ FLeq(growth_adjustment, Zero)
          THEN {"conservative"} ELSE {"baseline"})
Insight(growth_adjustment) ==
    IF FLeq(FLit(15, 100), growth_adjustment) THEN {"aggressive"}
    ELSE IF growth_adjustment # Zero /\ FLeq(Zero, growth_adjustment) THEN {"moderate"}
    ELSE IF growth_adjustment # Zero /\ FLeq(growth_adjustment, Zero) THEN {"conservative"}
    ELSE {"baseline"}

ForecastTable(future_6m) ==
    [i \in 1..Len(future_6m) |->
        [Month |-> future_6m[i].ds, Forecast |-> future_6m[i].yhat_adj,
         LowerBound |-> future_6m[i].yhat_lower_adj,
         UpperBound |-> future_6m[i].yhat_upper_adj]]

\* lines 73-83: actuals, the monthly sales with their columns renamed, or
\* None for a category
\* (Actuals_of_any: assigned before the branch, for every selection)
Actuals_of_any(monthly_sales, selected_category) ==
    [isNone |-> FALSE,
     rows |-> [i \in 1..Len(monthly_sales) |->
                 [ds |-> monthly_sales[i].OrderDate,
                  actual |-> monthly_sales[i].Sales]]]
Actuals(monthly_sales, selected_category) ==
    IF selected_category = AllCategories
    THEN [isNone |-> FALSE,
          rows |-> [i \in 1..Len(monthly_sales) |->
                      [ds |-> monthly_sales[i].OrderDate,
                       actual |-> monthly_sales[i].Sales]]]
    ELSE [isNone |-> TRUE, rows |-> <<>>]

Trace(name, df, x, y) ==
    [name |-> name, x |-> Column(df, x), y |-> Column(df, y)]

\* lines 121-159: the traces of the figure, in the order they are added
Plot(actuals, forecast, selected_scenario) ==
    (IF actuals.isNone THEN <<>>
     ELSE << Trace(<<"Actual Sales">>, actuals.rows, "ds", "actual") >>)
    \o << Trace(<<"Forecast", selected_scenario>>, forecast, "ds", "yhat_adj"),
          Trace(<<>>, forecast, "ds", "yhat_lower_adj"),
          Trace(<<"Confidence Interval">>, forecast, "ds", "yhat_upper_adj") >>

MainElements ==
    {"title", "category_selector", "scenario_selector", "kpi", "plot",
     "plot_download", "table", "table_download", "insight"}

\* lines 73-103: the objects of the run once the columns are assigned,
\* and the object `forecast` names
RunObjects(tables, selected_category, growth_adjustment) ==
    The({[ref |-> src.ref,
          heap |-> ApplyGrowth(src.heap, src.ref, growth_adjustment)] :
           src \in {ForecastSource(
                      [forecast_all |-> tables.forecast,
                       category_forecast |-> tables.category_forecast_df,
                       filtered |-> <<>>, forecast |-> <<>>],
                      selected_category)}})

\* lines 105-207: what the page draws
Drawn(tables, categories, selected_category, selected_scenario, objs, future_6m) ==
    [BlankView EXCEPT
        !.elements = MainElements \cup
            (IF Actuals(tables.monthly_sales, selected_category).isNone
             THEN {} ELSE {"trace_actual"}),
        !.categories = categories,
        !.scenarios = ScenarioNames,
        !.forecast = objs.heap[objs.ref],
        !.state_holder = [forecast |-> objs.heap.forecast_all,
                          category_forecast_df |-> objs.heap.category_forecast,
                          errors |-> tables.errors],
        !.growth_adjustment = scenario_map[selected_scenario],
        !.forecast_6m_total = sum(Column(future_6m, "yhat_adj")),
        !.best_model = idxmin(tables.errors),
        !.best_mae = loc(tables.errors, idxmin(tables.errors)),
        !.actuals = Actuals(tables.monthly_sales, selected_category).rows,
        !.plot = Plot(Actuals(tables.monthly_sales, selected_category),
                      objs.heap[objs.ref], selected_scenario),
        !.table = ForecastTable(future_6m),
        !.insight = Insight(scenario_map[selected_scenario])]

\* one run of mainpage.py with the widget state ss
MainPage(ld, ss) ==
    IF TryLoad(ld, MainKeys) # "" THEN Stopped(TryLoad(ld, MainKeys))
    ELSE
    LET categories == Categories(ld.value.category_forecast_df)
        selected_category == Selectbox(categories, 0, ss.selected_category)
        selected_scenario == Selectbox(ScenarioNames, 1, ss.selected_scenario)
    IN  [session_state |-> [selected_category |-> selected_category,
                            selected_scenario |-> selected_scenario],
         view |-> The({Drawn(ld.value, categories, selected_category,
                             selected_scenario, objs,
                             tail(objs.heap[objs.ref], WindowSize)) :
                         objs \in {RunObjects(ld.value, selected_category,
                                              scenario_map[selected_scenario])}})]

\* ------------------------------------------------- the other pages
ComparisonElements ==
    {"title", "kpi", "errors_summary", "errors_download", "selected_model",
     "baseline_charts", "prophet_charts", "error_charts"}

HasRow(errors, model) == \E i \in 1..Len(errors) : errors[i].Model = model

\* what st.exception shows for an exception no except branch catches; the
\* elements drawn before it stay
Uncaught(drawn) == drawn \cup {"exception"}

\* one run of comparison.py
\* (ComparisonPage_adjusted_column: the upper bounds summed, not the estimates)
ComparisonPage_adjusted_column(ld) ==
    IF TryLoad(ld, ComparisonKeys) # "" THEN Stopped(TryLoad(ld, ComparisonKeys))
    ELSE IF ~HasRow(ld.value.errors, "Prophet") THEN Stopped("KeyError")
    ELSE
    LET future_forecast == tail(ld.value.forecast, WindowSize)
        best_model == idxmin(ld.value.errors)
    IN  [session_state |-> NoWidgets,
         view |-> [BlankView EXCEPT
                    !.elements =
                        IF "test" \in ld.value.keys THEN ComparisonElements
                        ELSE Uncaught(ComparisonElements
                                        \ {"prophet_charts", "error_charts"}),
                    !.forecast_6m = sum(Column(future_forecast, "yhat_upper")),
                    !.best_model = best_model,
                    !.best_mae = loc(ld.value.errors, best_model)]]
ComparisonPage(ld) ==
    IF TryLoad(ld, ComparisonKeys) # "" THEN Stopped(TryLoad(ld, ComparisonKeys))
    ELSE IF ~HasRow(ld.value.errors, "Prophet") THEN Stopped("KeyError")
    ELSE
    LET future_forecast == tail(ld.value.forecast, WindowSize)
        best_model == idxmin(ld.value.errors)
    IN  [session_state |-> NoWidgets,
         view |-> [BlankView EXCEPT
                    !.elements =
                        IF "test" \in ld.value.keys THEN ComparisonElements
                        ELSE Uncaught(ComparisonElements
                                        \ {"prophet_charts", "error_charts"}),
                    !.forecast_6m = sum(Column(future_forecast, "yhat")),
                    !.best_model = best_model,
                    !.best_mae = loc(ld.value.errors, best_model)]]

DatasetElements ==
    {"title", "kpi_rows", "kpi_columns", "kpi_categorical", "column_summary",
     "dataset_table", "categorical_table", "eda_charts", "additional_info"}

\* one run of dataset_info.py
DatasetPage(ld) ==
    IF TryLoad(ld, DatasetKeys) # "" THEN Stopped(TryLoad(ld, DatasetKeys))
    ELSE
    [session_state |-> NoWidgets,
     view |-> IF "categorical_cols" \in ld.value.keys
              THEN [BlankView EXCEPT !.elements = DatasetElements]
              ELSE [BlankView EXCEPT !.elements =
                      Uncaught({"title", "kpi_rows", "kpi_columns"})]]

\* ------------------------------------------------------- the actions
Closed == [page |-> "closed", session_state |-> NoWidgets, view |-> BlankView]

InitWith(sessions, stores) ==
    /\ store \in stores
    /\ cache = [present |-> FALSE, value |-> NoFile("absent")]
    /\ sess = [s \in sessions |-> Closed]

Init == InitWith({1}, Stores)

\* dashboard.py runs the script of `page` in session s, from top to bottom
Script(page, ld, ss) ==
    CASE page = "mainpage" -> MainPage(ld, ss)
      [] page = "comparison" -> ComparisonPage(ld)
      [] page = "dataset_info" -> DatasetPage(ld)

\* (Run_shared_widgets: the widget values kept in one place for all
\* sessions instead of st.session_state)
Run_shared_widgets(s, page, ss) ==
    \E ld \in {load_state(cache, store)} :
        \E r \in {Script(page, ld, ss)} :
            /\ cache' = ld.cache
            /\ sess' = [t \in DOMAIN sess |->
                          IF t = s
                          THEN [page |-> page, session_state |-> r.session_state,
                                view |-> r.view]
                          ELSE [sess[t] EXCEPT !.session_state = r.session_state]]
            /\ UNCHANGED store
Run(s, page, ss) ==
    \E ld \in {load_state(cache, store)} :
        \E r \in {Script(page, ld, ss)} :
            /\ cache' = ld.cache
            /\ sess' = [sess EXCEPT ![s] =
                          [page |-> page, session_state |-> r.session_state,
                           view |-> r.view]]
            /\ UNCHANGED store

\* a browser opens the app: st.navigation runs its first page
Open(s) ==
    /\ sess[s].page = "closed"
    /\ Run(s, "mainpage", NoWidgets)

\* the user picks another page: the widgets of the page left are dropped
Navigate(s, p) ==
    /\ sess[s].page \notin {"closed", p}
    /\ Run(s, p, NoWidgets)

\* the user reruns the page shown
Rerun(s) ==
    /\ sess[s].page # "closed"
    /\ Run(s, sess[s].page, sess[s].session_state)

Offered(options) == {options[i] : i \in 1..Len(options)}

\* the user picks a category the selector offers
SelectCategory(s, c) ==
    /\ sess[s].page = "mainpage"
    /\ "category_selector" \in sess[s].view.elements
    /\ c \in Offered(sess[s].view.categories)
    /\ c # sess[s].session_state.selected_category
    /\ Run(s, "mainpage", [sess[s].session_state EXCEPT !.selected_category = c])

\* the user picks a scenario the selector offers
SelectScenario(s, n) ==
    /\ sess[s].page = "mainpage"
    /\ "scenario_selector" \in sess[s].view.elements
    /\ n \in Offered(sess[s].view.scenarios)
    /\ n # sess[s].session_state.selected_scenario
    /\ Run(s, "mainpage", [sess[s].session_state EXCEPT !.selected_scenario = n])

\* the training notebook is run and writes the artifact
RunNotebook ==
    /\ store.status # "ok"
    /\ store' = BaseArtifact
    /\ UNCHANGED <<cache, sess>>

Next ==
    \/ \E s \in DOMAIN sess : Open(s)
    \/ \E s \in DOMAIN sess, p \in Pages : Navigate(s, p)
    \/ \E s \in DOMAIN sess : Rerun(s)
    \/ \E s \in DOMAIN sess, c \in Labels \cup {AllCategories} : SelectCategory(s, c)
    \/ \E s \in DOMAIN sess, n \in DOMAIN scenario_map : SelectScenario(s, n)
    \/ RunNotebook

Spec == Init /\ [][Next]_vars

\* the selection of lines 73-83 applied to every label, also one the
\* per-category table does not hold
SelectLabel(s, c) ==
    /\ sess[s].page = "mainpage"
    /\ "category_selector" \in sess[s].view.elements
    /\ c # sess[s].session_state.selected_category
    /\ Run(s, "mainpage", [sess[s].session_state EXCEPT !.selected_category = c])

NextAnyLabel ==
    \/ Next
    \/ \E s \in DOMAIN sess, c \in Labels \cup {AllCategories} : SelectLabel(s, c)

SpecAnyLabel == Init /\ [][NextAnyLabel]_vars

\* several browser sessions served by the one process: every session runs
\* its pages in its own script thread with its own st.session_state, and
\* all of them call the one cached load_state
MaxSessions == 2

\* artifacts of one category
ConcurrentStores ==
    {Artifact(AllKeys, Series(2, 7), CatTable(3, 8),
              CHOOSE e \in ErrTables : e[1].Model = "Naive"),
     Artifact(AllKeys, Series(1, 12), CatTable(3, 3),
              CHOOSE e \in ErrTables : e[1].Model = "Prophet")}

InitConcurrent == InitWith(1..MaxSessions, ConcurrentStores)

\* the steps of the sessions; the artifact is in place
NextConcurrent ==
    \/ \E s \in DOMAIN sess : Open(s)
    \/ \E s \in DOMAIN sess, p \in Pages : Navigate(s, p)
    \/ \E s \in DOMAIN sess : Rerun(s)
    \/ \E s \in DOMAIN sess, c \in Labels \cup {AllCategories} : SelectCategory(s, c)
    \/ \E s \in DOMAIN sess, n \in DOMAIN scenario_map : SelectScenario(s, n)

SpecConcurrent == InitConcurrent /\ [][NextConcurrent]_vars

\* ------------------------------------------------------ the claims
\* what session s shows, and what it has selected
Shows(s, page, element) ==
    sess[s].page = page /\ element \in sess[s].view.elements

Selection(s) == sess[s].session_state.selected_category

Rate(s) == scenario_map[sess[s].session_state.selected_scenario]

\* the rows of the per-category table that carry `label`, by position
MatchingIndexes(cat, label) == {i \in 1..Len(cat) : cat[i].Category = label}

Nth(idx, k) == CHOOSE i \in idx : Cardinality({j \in idx : j <= i}) = k

MatchingRows(cat, label) ==
    [k \in 1..Cardinality(MatchingIndexes(cat, label)) |->
        cat[Nth(MatchingIndexes(cat, label), k)]]

\* the base series of the selection of s, read from the loaded tables
SelectedBase(s) ==
    IF Selection(s) = AllCategories THEN cache.value.forecast
    ELSE MatchingRows(cache.value.category_forecast_df, Selection(s))

AdjColumns == {"yhat_adj", "yhat_lower_adj", "yhat_upper_adj"}

\* a row without the columns the adjustment adds
BaseColumns(row) == [c \in DOMAIN row \ AdjColumns |-> row[c]]

\* row is base scaled by factor, column by column
ScaledRow(row, base, factor) ==
    /\ row.yhat_adj = FMul(base.yhat, factor)
    /\ row.yhat_lower_adj = FMul(base.yhat_lower, factor)
    /\ row.yhat_upper_adj = FMul(base.yhat_upper, factor)

Ordered(lower, estimate, upper) == FLeq(lower, estimate) /\ FLeq(estimate, upper)

\* the first row of the last n rows of a table of len rows
WindowStart(len, n) == IF len > n THEN len - n + 1 ELSE 1

\* rows[lo].col + ... + rows[hi].col, added in that order from 0.0
RECURSIVE RangeSum(_, _, _, _)
RangeSum(rows, col, lo, hi) ==
    IF hi < lo THEN Zero
    ELSE FAdd(RangeSum(rows, col, lo, hi - 1), rows[hi][col])

\* C1: for every scenario rate and every base series whose points have
\* lower <= estimate <= upper, the adjusted series has as many points as the
\* base series, in the same timestamp order, every adjusted column is the
\* base column times (1 + rate), and every adjusted point has
\* lower' <= estimate' <= upper'
GrowthScalesEveryPoint ==
    \A s \in DOMAIN sess :
        Shows(s, "mainpage", "kpi") =>
            LET adjusted == sess[s].view.forecast
                base == SelectedBase(s)
                factor == FAdd(FInt(1), sess[s].view.growth_adjustment)
            IN  /\ sess[s].view.growth_adjustment
                     \in {FLit(-10, 100), FLit(0, 100), FLit(10, 100), FLit(20, 100)}
                /\ Len(adjusted) = Len(base)
                /\ \A i \in 1..Len(base) :
                      /\ adjusted[i].ds = base[i].ds
                      /\ ScaledRow(adjusted[i], base[i], factor)
                      /\ Ordered(base[i].yhat_lower, base[i].yhat, base[i].yhat_upper)
                           => Ordered(adjusted[i].yhat_lower_adj, adjusted[i].yhat_adj,
                                      adjusted[i].yhat_upper_adj)

\* a 12-point series with negative and positive values, scaled down
GrowthScalesEveryPointWitness ==
    \E s \in DOMAIN sess :
        /\ Shows(s, "mainpage", "kpi")
        /\ sess[s].session_state.selected_scenario = "Conservative (-10%)"
        /\ Len(sess[s].view.forecast) = 12
        /\ \E i \in 1..12 : sess[s].view.forecast[i].yhat_lower.neg
        /\ \E i \in 1..12 :
              sess[s].view.forecast[i].yhat_adj # sess[s].view.forecast[i].yhat

FullMainRun == MainElements \cup {"trace_actual"}

TruncatedWindowIsFlagged ==
    \A s \in DOMAIN sess :
        /\ ( Shows(s, "mainpage", "kpi")
             /\ Len(sess[s].view.forecast) < WindowSize )
           => /\ Len(sess[s].view.table) = Len(sess[s].view.forecast)
              /\ sess[s].view.forecast_6m_total
                   = RangeSum(sess[s].view.forecast, "yhat_adj", 1,
                              Len(sess[s].view.forecast))
              /\ sess[s].view.elements \ FullMainRun # {}
        /\ ( Shows(s, "comparison", "kpi")
             /\ Len(cache.value.forecast) < WindowSize )
           => /\ sess[s].view.forecast_6m
                   = RangeSum(cache.value.forecast, "yhat", 1,
                              Len(cache.value.forecast))
              /\ sess[s].view.elements
                   \ (ComparisonElements \cup {"exception"}) # {}

\* C4: the best model shown is the first row of the error table, in row
\* order, whose MAE is the minimum, together with that MAE; the main page
\* and the comparison page both show this row of the one loaded table
BestModelIsFirstMinimum ==
    \A s \in DOMAIN sess :
        Shows(s, "mainpage", "kpi") \/ Shows(s, "comparison", "kpi") =>
            LET errors == cache.value.errors
            IN  \E i \in 1..Len(errors) :
                   /\ sess[s].view.best_model = errors[i].Model
                   /\ sess[s].view.best_mae = errors[i].MAE
                   /\ \A j \in 1..Len(errors) : FLeq(errors[i].MAE, errors[j].MAE)
                   /\ \A j \in 1..(i - 1) : errors[j].MAE # errors[i].MAE

\* the comparison page over a table where two rows share the minimum
BestModelIsFirstMinimumWitness ==
    \E s \in DOMAIN sess :
        /\ Shows(s, "comparison", "kpi")
        /\ \E i, j \in 1..Len(cache.value.errors) :
              /\ i < j
              /\ cache.value.errors[i].Model = sess[s].view.best_model
              /\ cache.value.errors[j].MAE = sess[s].view.best_mae

\* C5: the 6-month total is the sum of yhat_adj over the last 6 points of
\* the adjusted series of the selection, added in timestamp order
TotalIsSumOfLastSix ==
    \A s \in DOMAIN sess :
        Shows(s, "mainpage", "kpi") =>
            LET adjusted == sess[s].view.forecast
            IN  sess[s].view.forecast_6m_total
                  = RangeSum(adjusted, "yhat_adj",
                             WindowStart(Len(adjusted), 6), Len(adjusted))

\* more than 6 points, the earlier ones and the bounds differ from the
\* last estimates, and a rate is applied
TotalIsSumOfLastSixWitness ==
    \E s \in DOMAIN sess :
        /\ Shows(s, "mainpage", "kpi")
        /\ Len(sess[s].view.forecast) > 6
        /\ sess[s].session_state.selected_scenario = "Optimistic (+10%)"
        /\ sess[s].view.forecast[1].yhat_adj
             # sess[s].view.forecast[Len(sess[s].view.forecast)].yhat_adj
        /\ sess[s].view.forecast_6m_total # Zero

\* the tables a page reads from the artifact
Required(page) ==
    CASE page = "mainpage" -> MainKeys
      [] page = "comparison" -> ComparisonKeys \cup {"test"}
      [] page = "dataset_info" -> DatasetKeys \cup {"categorical_cols"}

\* C6: when the artifact cannot be loaded, or lacks a table the page
\* reads, the run of the page shows the error message and nothing else
UnloadableArtifactStopsPage ==
    \A s \in DOMAIN sess :
        ( /\ sess[s].page # "closed"
          /\ ~(cache.present /\ Required(sess[s].page) \subseteq cache.value.keys) )
        => sess[s].view.elements = {"error"}

\* C7: after any selections the loaded tables are the tables of the
\* artifact, also at the end of the run, and the series shown is the base
\* series of the current selection scaled by 1 + the current rate
SelectionsLeaveBaseTables ==
    \A s \in DOMAIN sess :
        Shows(s, "mainpage", "kpi") =>
            /\ cache.present /\ cache.value = store
            /\ sess[s].view.state_holder.forecast = store.forecast
            /\ sess[s].view.state_holder.category_forecast_df
                 = store.category_forecast_df
            /\ sess[s].view.state_holder.errors = store.errors
            /\ Len(sess[s].view.forecast) = Len(SelectedBase(s))
            /\ \A i \in 1..Len(SelectedBase(s)) :
                  ScaledRow(sess[s].view.forecast[i], SelectedBase(s)[i],
                            FAdd(FInt(1), Rate(s)))

\* a category and a rate selected, both other than the first ones shown
SelectionsLeaveBaseTablesWitness ==
    \E s \in DOMAIN sess :
        /\ Shows(s, "mainpage", "kpi")
        /\ Selection(s) = "Technology"
        /\ sess[s].session_state.selected_scenario = "Aggressive (+20%)"
        /\ Len(sess[s].view.forecast) > 0

\* C8: with "All Categories" the series is the aggregate forecast, point
\* for point, whatever the per-category table holds; with another category
\* it is the rows of the per-category table of that category, in their order
SelectionReturnsItsRows ==
    \A s \in DOMAIN sess :
        Shows(s, "mainpage", "kpi") =>
            LET shown == sess[s].view.forecast
                cat == cache.value.category_forecast_df
                idx == MatchingIndexes(cat, Selection(s))
            IN  IF Selection(s) = AllCategories
                THEN /\ Len(shown) = Len(cache.value.forecast)
                     /\ \A i \in 1..Len(shown) :
                           BaseColumns(shown[i]) = cache.value.forecast[i]
                ELSE /\ Len(shown) = Cardinality(idx)
                     /\ \A k \in 1..Len(shown) :
                           BaseColumns(shown[k]) = cat[Nth(idx, k)]

\* a category whose rows are interleaved with the rows of another
SelectionReturnsItsRowsWitness ==
    \E s \in DOMAIN sess :
        /\ Shows(s, "mainpage", "kpi")
        /\ Selection(s) = "Furniture"
        /\ Len(sess[s].view.forecast) > 2
        /\ Len(sess[s].view.forecast) < Len(cache.value.category_forecast_df)
        /\ cache.value.category_forecast_df[1].Category # "Furniture"

\* C9: under "Baseline (0%)" every adjusted column equals its base column,
\* and the 6-month total is the sum of the last 6 base estimates
BaselineIsIdentity ==
    \A s \in DOMAIN sess :
        ( /\ Shows(s, "mainpage", "kpi")
          /\ sess[s].session_state.selected_scenario = "Baseline (0%)" )
        => LET base == SelectedBase(s)
               shown == sess[s].view.forecast
           IN  /\ sess[s].view.growth_adjustment = Zero
               /\ Len(shown) = Len(base)
               /\ \A i \in 1..Len(base) :
                     /\ shown[i].yhat_adj = base[i].yhat
                     /\ shown[i].yhat_lower_adj = base[i].yhat_lower
                     /\ shown[i].yhat_upper_adj = base[i].yhat_upper
               /\ sess[s].view.forecast_6m_total
                    = RangeSum(base, "yhat", WindowStart(Len(base), 6), Len(base))

\* Baseline over a series of more than 6 points that do not sum to zero
BaselineIsIdentityWitness ==
    \E s \in DOMAIN sess :
        /\ Shows(s, "mainpage", "kpi")
        /\ sess[s].session_state.selected_scenario = "Baseline (0%)"
        /\ Len(sess[s].view.forecast) > 6
        /\ sess[s].view.forecast_6m_total # Zero

\* (1 + rate) times the sum of the last 6 base estimates of the selection
ScaledBaseTotal(s) ==
    FMul(FAdd(FInt(1), Rate(s)),
         RangeSum(SelectedBase(s), "yhat",
                  WindowStart(Len(SelectedBase(s)), 6), Len(SelectedBase(s))))

\* |x - y|, exactly
Distance(x, y) ==
    IF x.neg # y.neg THEN BAdd(x.mag, y.mag)
    ELSE IF BLess(x.mag, y.mag) THEN BSub(y.mag, x.mag)
    ELSE BSub(x.mag, y.mag)

\* |rows[lo].col| + ... + |rows[hi].col|, exactly
RECURSIVE RangeMagnitude(_, _, _, _)
RangeMagnitude(rows, col, lo, hi) ==
    IF hi < lo THEN <<>>
    ELSE BAdd(RangeMagnitude(rows, col, lo, hi - 1), rows[hi][col].mag)

\* C10 as the specification states it: with at least 6 points the adjusted
\* 6-month total equals (1 + r) times the sum of the last 6 base estimates
TotalEqualsScaledBaseSum ==
    \A s \in DOMAIN sess :
        ( Shows(s, "mainpage", "kpi") /\ Len(sess[s].view.forecast) >= 6 )
        => sess[s].view.forecast_6m_total = ScaledBaseTotal(s)

\* C10, amended: with at least 6 points the adjusted 6-month total and
\* (1 + r) times the sum of the last 6 base estimates differ by at most
\* 2^-49 of the sum of the magnitudes of the 6 adjusted estimates; they are
\* equal under "Baseline (0%)", and a 12-point series whose last 6 estimates
\* are 100 gives exactly 720 under "Aggressive (+20%)"
TotalNearScaledBaseSum ==
    \A s \in DOMAIN sess :
        ( Shows(s, "mainpage", "kpi") /\ Len(sess[s].view.forecast) >= 6 )
        => LET shown == sess[s].view.forecast
               total == sess[s].view.forecast_6m_total
           IN  /\ BLeq(ShiftLeft(Distance(total, ScaledBaseTotal(s)), 49),
                       RangeMagnitude(shown, "yhat_adj",
                                      WindowStart(Len(shown), 6), Len(shown)))
               /\ sess[s].session_state.selected_scenario = "Baseline (0%)"
                    => total = ScaledBaseTotal(s)
               /\ ( /\ sess[s].session_state.selected_scenario = "Aggressive (+20%)"
                    /\ Len(shown) = 12
                    /\ \A i \in 7..12 : shown[i].yhat = FInt(100) )
                  => total = FInt(720)

\* the 12-point series of 100s under "Aggressive (+20%)"
TotalNearScaledBaseSumWitness ==
    \E s \in DOMAIN sess :
        /\ Shows(s, "mainpage", "kpi")
        /\ sess[s].session_state.selected_scenario = "Aggressive (+20%)"
        /\ Len(sess[s].view.forecast) = 12
        /\ \A i \in 7..12 : sess[s].view.forecast[i].yhat = FInt(100)
        /\ sess[s].view.forecast_6m_total = FInt(720)

\* the first row of the error table, in row order, holding the least MAE
FirstMinimum(errors) ==
    errors[CHOOSE i \in 1..Len(errors) :
             /\ \A j \in 1..Len(errors) : FLeq(errors[i].MAE, errors[j].MAE)
             /\ \A j \in 1..(i - 1) : errors[j].MAE # errors[i].MAE]

\* what session s shows follows from its own selection and the artifact
\* loaded: the series, the 6-month total, the best model, and the tables
\* its run held at its end
OwnResult(s) ==
    Shows(s, "mainpage", "kpi") =>
        LET base == SelectedBase(s)
            shown == sess[s].view.forecast
        IN  /\ Len(shown) = Len(base)
            /\ \A i \in 1..Len(base) :
                  /\ BaseColumns(shown[i]) = base[i]
                  /\ ScaledRow(shown[i], base[i], FAdd(FInt(1), Rate(s)))
            /\ sess[s].view.forecast_6m_total
                 = RangeSum(shown, "yhat_adj", WindowStart(Len(shown), 6), Len(shown))
            /\ sess[s].view.best_model = FirstMinimum(cache.value.errors).Model
            /\ sess[s].view.state_holder.forecast = cache.value.forecast
            /\ sess[s].view.state_holder.category_forecast_df
                 = cache.value.category_forecast_df
            /\ sess[s].view.state_holder.errors = cache.value.errors

\* C11: with several sessions, under every interleaving of their steps,
\* what a session shows (adjusted series, 6-month total, best model) follows
\* from its own category and scenario and the loaded artifact; a step of one
\* session changes nothing of another session; and the artifact loaded stays
\* the one that was loaded, equal to the file
SessionsAreIndependent ==
    /\ [](\A s \in DOMAIN sess : OwnResult(s))
    /\ [](cache.present => cache.value = store)
    /\ [][\A s, t \in DOMAIN sess :
            (s # t /\ sess'[s] # sess[s]) => sess'[t] = sess[t]]_vars
    /\ [][cache.present => cache' = cache]_vars

\* two sessions on the main page with different categories and scenarios
SessionsAreIndependentWitness ==
    /\ Shows(1, "mainpage", "kpi")
    /\ Shows(2, "mainpage", "kpi")
    /\ Selection(1) = "Furniture"
    /\ Selection(2) = AllCategories
    /\ sess[1].session_state.selected_scenario = "Aggressive (+20%)"
    /\ sess[2].session_state.selected_scenario = "Conservative (-10%)"
    /\ sess[1].view.forecast_6m_total # sess[2].view.forecast_6m_total

\* the rate the specification gives a scenario name
NamedRate(name) ==
    CASE name = "Conservative (-10%)" -> FLit(-10, 100)
      [] name = "Baseline (0%)" -> FLit(0, 100)
      [] name = "Optimistic (+10%)" -> FLit(10, 100)
      [] name = "Aggressive (+20%)" -> FLit(20, 100)

\* session s comes to the main page in this step, from elsewhere
Arrives(s) ==
    /\ sess[s].page # "mainpage"
    /\ sess'[s].page = "mainpage"
    /\ "kpi" \in sess'[s].view.elements

\* C12: the rate applied in a run is one of -0.10, 0.00, 0.10, 0.20, the
\* one of the selected scenario name; every name the selector offers has a
\* rate, the four names have four rates; and the run of the page before the
\* user has selected anything has "Baseline (0%)" and the rate 0.00
RateIsOfSelectedScenario ==
    /\ [](\A s \in DOMAIN sess :
            Shows(s, "mainpage", "kpi") =>
                /\ sess[s].view.growth_adjustment
                     \in {FLit(-10, 100), FLit(0, 100), FLit(10, 100), FLit(20, 100)}
                /\ sess[s].view.growth_adjustment
                     = NamedRate(sess[s].session_state.selected_scenario)
                /\ Offered(sess[s].view.scenarios) \subseteq DOMAIN scenario_map
                /\ Cardinality(Offered(sess[s].view.scenarios)) = 4
                /\ Cardinality({scenario_map[n] :
                                  n \in Offered(sess[s].view.scenarios)}) = 4)
    /\ [][\A s \in DOMAIN sess :
            Arrives(s) =>
                /\ sess'[s].session_state.selected_scenario = "Baseline (0%)"
                /\ sess'[s].view.growth_adjustment = FLit(0, 100)]_vars

\* the main page as it is first shown, and after a scenario was selected
RateIsOfSelectedScenarioWitness ==
    \E s \in DOMAIN sess :
        /\ Shows(s, "mainpage", "kpi")
        /\ sess[s].session_state.selected_scenario = "Optimistic (+10%)"
        /\ sess[s].view.growth_adjustment = FLit(10, 100)
        /\ Len(sess[s].view.forecast) > 0
        /\ sess[s].view.forecast[1].yhat_adj # sess[s].view.forecast[1].yhat

\* the place of a category label in alphabetical order
Alphabetical(label) ==
    CASE label = "Furniture" -> 1
      [] label = "Office Supplies" -> 2
      [] label = "Technology" -> 3

\* C13: the category selector offers "All Categories" and then the
\* distinct Category values of the per-category table in sorted order; the
\* selection is one of the options, and a selection other than
\* "All Categories" has at least one row in the table and in the series
SelectorOffersPresentCategories ==
    \A s \in DOMAIN sess :
        Shows(s, "mainpage", "category_selector") =>
            LET options == sess[s].view.categories
                cat == cache.value.category_forecast_df
            IN  /\ Len(options) >= 1
                /\ options[1] = AllCategories
                /\ {options[k] : k \in 2..Len(options)}
                     = {cat[i].Category : i \in 1..Len(cat)}
                /\ \A k \in 2..(Len(options) - 1) :
                      Alphabetical(options[k]) < Alphabetical(options[k + 1])
                /\ Selection(s) \in Offered(options)
                /\ Selection(s) # AllCategories
                     => /\ MatchingIndexes(cat, Selection(s)) # {}
                        /\ Len(sess[s].view.forecast) >= 1

\* a table of three categories, not in sorted order, one of them selected
SelectorOffersPresentCategoriesWitness ==
    \E s \in DOMAIN sess :
        /\ Shows(s, "mainpage", "category_selector")
        /\ Len(sess[s].view.categories) = 4
        /\ cache.value.category_forecast_df[1].Category = "Office Supplies"
        /\ Selection(s) = "Office Supplies"
        /\ Len(sess[s].view.forecast) >= 1

\* x < y
Below(x, y) == x # y /\ FLeq(x, y)

\* the message the specification gives a rate
MessageOfRate(rate) ==
    CASE FLeq(FLit(15, 100), rate) -> "aggressive"
      [] Below(Zero, rate) /\ Below(rate, FLit(15, 100)) -> "moderate"
      [] Below(rate, Zero) -> "conservative"
      [] rate = Zero -> "baseline"

MessageOfScenario(name) ==
    CASE name = "Conservative (-10%)" -> "conservative"
      [] name = "Baseline (0%)" -> "baseline"
      [] name = "Optimistic (+10%)" -> "moderate"
      [] name = "Aggressive (+20%)" -> "aggressive"

\* C14: a run of the main page shows exactly one business-insight message,
\* the one of its rate: aggressive from 0.15, moderate between 0 and 0.15,
\* conservative below 0, baseline at 0; so Conservative, Baseline,
\* Optimistic, Aggressive show conservative, baseline, moderate, aggressive
OneInsightPerRate ==
    \A s \in DOMAIN sess :
        Shows(s, "mainpage", "insight") =>
            /\ Cardinality(sess[s].view.insight) = 1
            /\ sess[s].view.insight
                 = {MessageOfRate(sess[s].view.growth_adjustment)}
            /\ sess[s].view.insight
                 = {MessageOfScenario(sess[s].session_state.selected_scenario)}

\* a rate above 0, where two of the conditions of the branch hold
OneInsightPerRateWitness ==
    \E s \in DOMAIN sess :
        /\ Shows(s, "mainpage", "insight")
        /\ sess[s].session_state.selected_scenario = "Aggressive (+20%)"
        /\ Below(Zero, sess[s].view.growth_adjustment)
        /\ sess[s].view.insight = {"aggressive"}

\* the sum of the estimates of the last 6 points of the aggregate forecast
AggregateTotal ==
    RangeSum(cache.value.forecast, "yhat",
             WindowStart(Len(cache.value.forecast), 6), Len(cache.value.forecast))

\* session s goes from the main page to the comparison page in this step
MainToComparison(s) ==
    /\ Shows(s, "mainpage", "kpi")
    /\ sess'[s].page = "comparison"
    /\ "kpi" \in sess'[s].view.elements

BaselineOfAll(s) ==
    /\ Selection(s) = AllCategories
    /\ sess[s].session_state.selected_scenario = "Baseline (0%)"

\* C15 as stated: the comparison page's 6-month value is the sum of the
\* unadjusted estimates of the last 6 points of the aggregate forecast,
\* whatever was selected on the main page, and it equals the main page's
\* total if and only if the main page had "All Categories" and
\* "Baseline (0%)" selected
ComparisonTotalEqualsOnlyBaselineOfAll ==
    /\ [](\A s \in DOMAIN sess :
            Shows(s, "comparison", "kpi") => sess[s].view.forecast_6m = AggregateTotal)
    /\ [][\A s \in DOMAIN sess :
            MainToComparison(s) =>
                (BaselineOfAll(s)
                   <=> sess'[s].view.forecast_6m = sess[s].view.forecast_6m_total)]_vars

\* C15, amended: the comparison page's 6-month value is the sum of the
\* unadjusted estimates of the last 6 points of the aggregate forecast,
\* whatever was selected on the main page, and it equals the main page's
\* total whenever the main page had "All Categories" and "Baseline (0%)"
\* selected (with another selection the two may still coincide)
ComparisonTotalIsAggregateBaseline ==
    /\ [](\A s \in DOMAIN sess :
            Shows(s, "comparison", "kpi") => sess[s].view.forecast_6m = AggregateTotal)
    /\ [][\A s \in DOMAIN sess :
            (MainToComparison(s) /\ BaselineOfAll(s))
                => sess'[s].view.forecast_6m = sess[s].view.forecast_6m_total]_vars

\* the comparison page over an aggregate forecast of more than 6 points
\* whose estimates and upper bounds differ
ComparisonTotalIsAggregateBaselineWitness ==
    \E s \in DOMAIN sess :
        /\ Shows(s, "comparison", "kpi")
        /\ Len(cache.value.forecast) > 6
        /\ sess[s].view.forecast_6m # Zero
        /\ \E i \in 1..Len(cache.value.forecast) :
              cache.value.forecast[i].yhat # cache.value.forecast[i].yhat_upper

\* the traces of the plot of session s that show the monthly sales
ActualTraces(s) ==
    {k \in 1..Len(sess[s].view.plot) :
        \/ sess[s].view.plot[k].name = <<"Actual Sales">>
        \/ /\ Len(cache.value.monthly_sales) > 0
           /\ sess[s].view.plot[k].y
                = [i \in 1..Len(cache.value.monthly_sales) |->
                     cache.value.monthly_sales[i].Sales]}

\* the values of column col of the series session s shows
ShownColumn(s, col) ==
    [i \in 1..Len(sess[s].view.forecast) |-> sess[s].view.forecast[i][col]]

\* C16: the plot holds the historical monthly sales if and only if
\* "All Categories" is selected; for a category it holds three traces, the
\* adjusted estimates of that category and their two bounds, and no trace
\* of the aggregate actuals
ActualsPlottedOnlyForAll ==
    \A s \in DOMAIN sess :
        Shows(s, "mainpage", "plot") =>
            LET plot == sess[s].view.plot
            IN  /\ ActualTraces(s) # {} <=> Selection(s) = AllCategories
                /\ Selection(s) = AllCategories
                     => /\ ActualTraces(s) = {1}
                        /\ plot[1].y = [i \in 1..Len(cache.value.monthly_sales) |->
                                          cache.value.monthly_sales[i].Sales]
                /\ Selection(s) # AllCategories
                     => /\ Len(plot) = 3
                        /\ Len(sess[s].view.forecast) = Len(SelectedBase(s))
                        /\ plot[1].y = ShownColumn(s, "yhat_adj")
                        /\ plot[2].y = ShownColumn(s, "yhat_lower_adj")
                        /\ plot[3].y = ShownColumn(s, "yhat_upper_adj")
                        /\ \A k \in 1..3 : plot[k].x = ShownColumn(s, "ds")

\* a category selected, its series plotted
ActualsPlottedOnlyForAllWitness ==
    \E s \in DOMAIN sess :
        /\ Shows(s, "mainpage", "plot")
        /\ Selection(s) = "Technology"
        /\ Len(sess[s].view.plot) = 3
        /\ Len(sess[s].view.plot[1].y) > 1
====
